---- MODULE Spec2Model ----
(***************************************************************************)
(* evaluate_trajectory: the host program (main) that drives the            *)
(* observation / reconstructability pipeline on the accelerator.           *)
(*                                                                         *)
(* The host is one sequential process (pc).  The accelerator is a queue    *)
(* of launched kernels (dev); a kernel is executed by its workers, one     *)
(* step per worker, in any order.  Geometry is one-dimensional: samples    *)
(* and cameras sit on a line, the proxy mesh is an optional wall.          *)
(* Scores are fixed-point numbers: Unit stands for 1.0f.                   *)
(***************************************************************************)
EXTENDS Integers, Sequences, FiniteSets, TLC

VARIABLES
    pc,          \* position of main
    inputs,      \* what is on disk: trajectory / mesh / cloud present and readable
    args,        \* Arguments (parse_args)
    trajectory,  \* std::vector<mve::CameraInfo>
    mesh,        \* the proxy mesh behind dbvh_tree
    cloud,       \* the proxy cloud: the position of every vertex
    num_verts,   \* uint num_verts
    allocated,   \* the per-sample device arrays exist
    dobs_rays,   \* VectorArray<Vec3f, DEVICE>: the ObservationTable
    drecons,     \* Array<float, DEVICE>: raw scores
    dwrecons,    \* Array<float, DEVICE>: weighted scores
    stream,      \* cudaStream_t stream
    it,          \* iteration of the camera loop (1-based, next to run)
    host,        \* the reused host pose variables view_pos, w2c (calib folded in w2c)
    dev,         \* kernels launched and not yet completed, in launch order
    last_error,  \* the CUDA runtime's last launch error
    issued,      \* log of launches: <<kernel, camera index>>
    completed,   \* log of the kernels the device has completed, in order
    values,      \* std::vector<float> values
    report,      \* what was printed to std::cout
    files,       \* the exported point clouds
    err,         \* what was printed to std::cerr
    exit_code    \* "running", "success", "failure", "crash"

loaded == <<inputs, args, trajectory, mesh, cloud, num_verts>>
memory == <<allocated, dobs_rays, drecons, dwrecons>>
loop == <<stream, it, host>>
output == <<values, report, files, err, exit_code>>

vars == <<pc, loaded, memory, loop, dev, last_error, issued, completed, output>>

----------------------------------------------------------------------------
(* Bounds of the model *)

MaxSamples == 2        \* largest proxy cloud
MaxShortLen == 3       \* short trajectories: every pose sequence up to this length
MaxExtra == 1          \* long trajectories: runs of up to max_cameras + MaxExtra cameras
MaxPending == 2        \* launches the runtime queues before a launch blocks

(* Program constants *)

max_cameras == 32
max_distance_default == 80
target_recon_default == 3
KERNEL_BLOCK_SIZE == 2
Unit == 6              \* fixed-point 1.0f
Uninit == -1           \* content of device memory that was never written

----------------------------------------------------------------------------
(* Helpers *)

Min(a, b) == IF a <= b THEN a ELSE b
Max(a, b) == IF a >= b THEN a ELSE b
Abs(a) == IF a < 0 THEN -a ELSE a

divup(a, b) == (a + b - 1) \div b

Run(p, n) == [i \in 1..n |-> p]

----------------------------------------------------------------------------
(* The inputs *)

CamPositions == {5, 25, 200}

Poses == {[pos |-> p, ok |-> TRUE] : p \in CamPositions}
            \cup {[pos |-> 5, ok |-> FALSE]}

NearPose == [pos |-> 5, ok |-> TRUE]
FarPose == [pos |-> 200, ok |-> TRUE]

ShortTrajectories == UNION {[1..n -> Poses] : n \in 0..MaxShortLen}

LongTrajectories ==
    {h \o Run(NearPose, n) \o t :
        h \in {<<>>, <<FarPose>>},
        n \in (max_cameras - 1)..(max_cameras + MaxExtra),
        t \in {<<>>} \cup {<<p>> : p \in Poses}}

Trajectories == ShortTrajectories \cup LongTrajectories

Meshes == {"open", "wall"}

\* a proxy cloud of n vertices
CloudPoints(n) == [s \in 1..n |-> 10 * s]

\* the position of sample s in the loaded cloud
SamplePos(s) == cloud[s]

\* parse_args: -r and -o name the exports, the rest are the defaults
ParsedArgs ==
    [max_distance : {max_distance_default}, target_recon : {target_recon_default},
     recon_cloud : BOOLEAN, obs_cloud : BOOLEAN]

----------------------------------------------------------------------------
(* The kernels of eval/kernels.h *)

\* first hit of the segment from a sample to the camera on the proxy mesh
Blocked(m, c, x) == m = "wall" /\ Min(c, x) < 15 /\ 15 < Max(c, x)

\* update_observation_rays: the visibility test of one sample for one camera
Observes(view_pos, w2c, max_distance, m, s) ==
    /\ w2c.ok
    /\ Abs(view_pos - SamplePos(s)) <= max_distance
    /\ ~Blocked(m, view_pos, SamplePos(s))

\* the row worker id owns: id = blockIdx.x * blockDim.x + threadIdx.x, and the
\* workers past the last sample return (0: no row)
OwnedRowWrapped(id, nv) == IF nv = 0 THEN 0 ELSE (id % nv) + 1
OwnedRow(id, nv) == IF id >= nv THEN 0 ELSE id + 1

\* update_observation_rays(populate = true): worker id on the table
UpdateRow(tab, k, id, m, nv) ==
    LET s == OwnedRow(id, nv) IN
    IF s = 0 THEN tab
    ELSE IF ~Observes(k.view_pos, k.w2c, k.max_distance, m, s) THEN tab
    ELSE IF Len(tab.rows[s]) >= tab.max_rows THEN tab
    ELSE [tab EXCEPT !.rows[s] =
              Append(@, [cam |-> k.cam, dir |-> k.view_pos - SamplePos(s)])]

\* process_observation_rays: orders one row by ray direction
RECURSIVE InsertRay(_, _)
InsertRay(r, row) ==
    IF row = <<>> THEN <<r>>
    ELSE IF r.dir < Head(row).dir THEN <<r>> \o row
    ELSE <<Head(row)>> \o InsertRay(r, Tail(row))

RECURSIVE SortRow(_)
SortRow(row) ==
    IF row = <<>> THEN <<>> ELSE InsertRay(Head(row), SortRow(Tail(row)))

ProcessRow(tab, id) ==
    LET s == OwnedRow(id, tab.num_cols) IN
    IF s = 0 THEN tab ELSE [tab EXCEPT !.rows[s] = SortRow(@)]

\* evaluate_observation_rays: the pairs of rays that triangulate (opposite sides)
RawScore(row) ==
    Cardinality({p \in (1..Len(row)) \X (1..Len(row)) :
                    p[1] < p[2] /\ row[p[1]].dir * row[p[2]].dir < 0})

EvaluateRow(tab, recons, id) ==
    LET s == OwnedRow(id, tab.num_cols) IN
    IF s = 0 \/ s > Len(recons) THEN recons
    ELSE IF Len(tab.rows[s]) = 0 THEN recons
    ELSE [recons EXCEPT ![s] = RawScore(tab.rows[s])]

\* calculate_func_recons: the raw score against the target, saturating at 1.0
RescaleLinear(raw, target) == (raw * Unit) \div target
Rescale(raw, target) == (Min(raw, target) * Unit) \div target

\* a read of device memory: never-written content is whatever the memory held
ReadsOf(x) == IF x = Uninit THEN 0..Unit ELSE {x}

CalculateRow(recons, wrecons, target, id, r) ==
    LET s == OwnedRow(id, Len(recons)) IN
    IF s = 0 THEN wrecons ELSE [wrecons EXCEPT ![s] = Rescale(r, target)]

----------------------------------------------------------------------------
(* The CUDA runtime: launches and streams *)

DefaultStream == 0     \* the legacy default stream of <<<grid, block>>>
UserStream == 1        \* the stream of cudaStreamCreate

\* the stream the camera loop launches pass i into
LoopStreamPerPass(i) == UserStream + i
LoopStream(i) == UserStream

\* kernels a and b run in launch order: same stream, or one of them in the
\* legacy default stream (cudaStreamCreate makes blocking streams)
Ordered(a, b) ==
    a.stream = b.stream \/ a.stream = DefaultStream \/ b.stream = DefaultStream

Kernel(name, cam, str, workers, h) ==
    [kernel |-> name, cam |-> cam, stream |-> str, workers |-> workers,
     view_pos |-> h.view_pos, w2c |-> h.w2c,
     max_distance |-> args.max_distance, target |-> args.target_recon,
     status |-> "queued", done |-> {}, wrote |-> {}]

\* kernel<<<grid, block>>>: an empty grid is an invalid configuration and
\* launches nothing; the launch blocks while the launch queue is full
Launch(name, cam, str, grid, block, h) ==
    /\ Len(dev) < MaxPending
    /\ issued' = Append(issued, <<name, cam>>)
    /\ completed' = completed
    /\ IF grid = 0
       THEN /\ last_error' = "invalid_configuration"
            /\ dev' = dev
       ELSE /\ last_error' = last_error
            /\ dev' = Append(dev, Kernel(name, cam, str, grid * block, h))

\* lines 160-161: the pose is passed to the kernel by value, so a running
\* kernel sees the pose of its launch whatever the host variables hold since
KernelPoseByReference(k) == [k EXCEPT !.view_pos = host.view_pos, !.w2c = host.w2c]
KernelPose(k) == k

\* the device starts a queued kernel once every kernel it is ordered after
\* has completed
DevStart ==
    \E j \in 1..Len(dev) :
        /\ dev[j].status = "queued"
        /\ \A i \in 1..(j - 1) : ~Ordered(dev[i], dev[j])
        /\ dev' = [dev EXCEPT ![j].status = "running"]
        /\ UNCHANGED <<pc, loaded, memory, loop, last_error, issued, completed,
                       output>>

\* one worker of a running kernel runs the kernel body
DevWorker ==
    \E j \in 1..Len(dev) : \E id \in 0..(dev[j].workers - 1) :
      LET k == dev[j]
          s == OwnedRow(id, num_verts) IN
        /\ k.status = "running"
        /\ id \notin k.done
        /\ \E r \in (IF k.kernel = "calculate" /\ s # 0
                     THEN ReadsOf(drecons[s]) ELSE {0}) :
            /\ dobs_rays' =
                 IF k.kernel = "update"
                 THEN UpdateRow(dobs_rays, KernelPose(k), id, mesh, num_verts)
                 ELSE IF k.kernel = "process" THEN ProcessRow(dobs_rays, id)
                 ELSE dobs_rays
            /\ drecons' =
                 IF k.kernel = "evaluate"
                 THEN EvaluateRow(dobs_rays, drecons, id)
                 ELSE drecons
            /\ dwrecons' =
                 IF k.kernel = "calculate"
                 THEN CalculateRow(drecons, dwrecons, k.target, id, r)
                 ELSE dwrecons
        /\ dev' = [dev EXCEPT
                     ![j].done = @ \cup {id},
                     ![j].wrote = @ \cup
                        {<<id, x>> : x \in {x \in DOMAIN dobs_rays.rows :
                                         dobs_rays'.rows[x] # dobs_rays.rows[x]}}]
        /\ UNCHANGED <<pc, loaded, allocated, loop, last_error, issued, completed,
                       output>>

\* a kernel whose workers have all run completes
DevFinish ==
    \E j \in 1..Len(dev) :
        /\ dev[j].status = "running"
        /\ dev[j].done = 0..(dev[j].workers - 1)
        /\ dev' = [i \in 1..(Len(dev) - 1) |-> IF i < j THEN dev[i] ELSE dev[i + 1]]
        /\ completed' = Append(completed, <<dev[j].kernel, dev[j].cam>>)
        /\ UNCHANGED <<pc, loaded, memory, loop, last_error, issued, output>>

----------------------------------------------------------------------------
(* cacc containers, reductions and the loaders of util/io.h, utp *)

\* VectorArray<Vec3f, DEVICE>::create(num_cols, max_rows): every row empty
TableCreate(cols, rows) ==
    [num_cols |-> cols, max_rows |-> rows, rows |-> [s \in 1..cols |-> <<>>]]

\* Array<float, DEVICE>::create(n): device memory, not written
ArrayCreate(n) == [s \in 1..n |-> Uninit]

\* Array<float, DEVICE>::null()
ArrayNull(a) == [s \in DOMAIN a |-> 0]

RECURSIVE SumUpTo(_, _)
SumUpTo(a, n) == IF n = 0 THEN 0 ELSE a[n] + SumUpTo(a, n - 1)

\* cacc::reduction::sum / min / max over a device array
ReductionSum(a) == SumUpTo(a, Len(a))
ReductionMin(a) == {x \in {a[i] : i \in DOMAIN a} : \A i \in DOMAIN a : x <= a[i]}
ReductionMax(a) == {x \in {a[i] : i \in DOMAIN a} : \A i \in DOMAIN a : x >= a[i]}

RECURSIVE PathLength(_, _)
PathLength(traj, n) ==
    IF n <= 1 THEN 0
    ELSE Abs(traj[n].pos - traj[n - 1].pos) + PathLength(traj, n - 1)

\* utp::length
TrajectoryLength(traj) == PathLength(traj, Len(traj))

\* a loader that cannot read its file reports it and ends the process
LoaderFailure(msg) ==
    /\ err' = Append(err, msg)
    /\ exit_code' = "failure"
    /\ pc' = "exit"

\* the contents a never-written array can turn out to hold
Contents(a) ==
    {v \in [DOMAIN a -> 0..Unit] : \A i \in DOMAIN a : a[i] # Uninit => v[i] = a[i]}

----------------------------------------------------------------------------
(* main *)

Init ==
    /\ pc = "load_trajectory"
    /\ inputs \in [trajectory : {"present", "unreadable", "missing"},
                   mesh : BOOLEAN, cloud : BOOLEAN]
    /\ args \in ParsedArgs
    /\ trajectory = <<>>
    /\ mesh = "none"
    /\ cloud = <<>>
    /\ num_verts = 0
    /\ allocated = FALSE
    /\ dobs_rays = TableCreate(0, 0)
    /\ drecons = <<>>
    /\ dwrecons = <<>>
    /\ stream = "none"
    /\ it = 1
    /\ host = [view_pos |-> 0, w2c |-> [origin |-> 0, ok |-> FALSE]]
    /\ dev = <<>>
    /\ last_error = "success"
    /\ issued = <<>>
    /\ completed = <<>>
    /\ values = <<>>
    /\ report = [times |-> <<>>, gpu |-> <<>>, cpu |-> <<>>, length |-> <<>>]
    /\ files = [recon |-> <<>>, obs |-> <<>>]
    /\ err = <<>>
    /\ exit_code = "running"

\* lines 103-107: the trajectory is a scene directory or a trajectory file
LoadTrajectory ==
    /\ pc = "load_trajectory"
    /\ inputs.trajectory = "present"
    /\ \E t \in Trajectories : trajectory' = t
    /\ pc' = "load_mesh"
    /\ UNCHANGED <<inputs, args, mesh, cloud, num_verts, memory, loop, dev,
                   last_error, issued, completed, output>>

\* lines 105, 107: the loader fails on what it finds
LoadTrajectoryFails ==
    /\ pc = "load_trajectory"
    /\ inputs.trajectory = "unreadable"
    /\ LoaderFailure("Could not load trajectory")
    /\ UNCHANGED <<loaded, memory, loop, dev, last_error, issued, completed,
                   values,
                   report, files>>

\* lines 108-111: neither a directory nor a file
TrajectoryMissingIgnored ==
    /\ pc = "load_trajectory"
    /\ inputs.trajectory = "missing"
    /\ err' = Append(err, "Could not load trajectory")
    /\ pc' = "load_mesh"
    /\ UNCHANGED <<loaded, memory, loop, dev, last_error, issued, completed,
                   values,
                   report, files, exit_code>>

TrajectoryMissing ==
    /\ pc = "load_trajectory"
    /\ inputs.trajectory = "missing"
    /\ err' = Append(err, "Could not load trajectory")
    /\ exit_code' = "failure"
    /\ pc' = "exit"
    /\ UNCHANGED <<loaded, memory, loop, dev, last_error, issued, completed,
                   values,
                   report, files>>

\* lines 113-118: load_mesh_as_bvh_tree, the tree copied to the device
LoadMesh ==
    /\ pc = "load_mesh"
    /\ IF inputs.mesh
       THEN /\ \E m \in Meshes : mesh' = m
            /\ pc' = "load_cloud"
            /\ UNCHANGED <<err, exit_code>>
       ELSE /\ LoaderFailure("Could not load mesh")
            /\ UNCHANGED mesh
    /\ UNCHANGED <<inputs, args, trajectory, cloud, num_verts, memory, loop,
                   dev, last_error, issued, completed, values, report, files>>

\* lines 120-123: load_point_cloud, the cloud copied to the device
LoadCloud ==
    /\ pc = "load_cloud"
    /\ IF inputs.cloud
       THEN /\ \E n \in 0..MaxSamples : cloud' = CloudPoints(n)
            /\ pc' = "allocate"
            /\ UNCHANGED <<err, exit_code>>
       ELSE /\ LoaderFailure("Could not load cloud")
            /\ UNCHANGED cloud
    /\ UNCHANGED <<inputs, args, trajectory, mesh, num_verts, memory, loop,
                   dev, last_error, issued, completed, values, report, files>>

\* line 129: the ObservationTable, max_cameras rays per sample
AllocTableSwapped(nv) == TableCreate(max_cameras, nv)
AllocTableOneMore(nv) == TableCreate(nv, max_cameras + 1)
AllocTable(nv) == TableCreate(nv, max_cameras)

\* lines 131-132: the raw scores, zeroed
AllocReconsNotNulled(nv) == ArrayCreate(nv)
AllocRecons(nv) == ArrayNull(ArrayCreate(nv))

\* line 134: the weighted scores
AllocWrecons(nv) == ArrayCreate(nv)

\* lines 125-134
Allocate ==
    /\ pc = "allocate"
    /\ num_verts' = Len(cloud)
    /\ allocated' = TRUE
    /\ dobs_rays' = AllocTable(Len(cloud))
    /\ drecons' = AllocRecons(Len(cloud))
    /\ dwrecons' = AllocWrecons(Len(cloud))
    /\ pc' = "stream_create"
    /\ UNCHANGED <<inputs, args, trajectory, mesh, cloud, loop, dev,
                   last_error, issued, completed, output>>

\* lines 149-152
StreamCreate ==
    /\ pc = "stream_create"
    /\ stream' = "created"
    /\ pc' = "loop"
    /\ UNCHANGED <<loaded, memory, it, host, dev, last_error, issued, completed,
                   output>>

\* lines 151-152, 181-182: one worker a sample, in blocks of KERNEL_BLOCK_SIZE
GridRoundedDown(n) == n \div KERNEL_BLOCK_SIZE
Grid(n) == divup(n, KERNEL_BLOCK_SIZE)

\* line 154: the trajectory entry iteration i visits
LoopCameraReversed(i) == Len(trajectory) + 1 - i
LoopCamera(i) == i

\* lines 155-157: fill_calibration, fill_world_to_cam, fill_camera_pos
FillPose(cam) ==
    [view_pos |-> cam.pos, w2c |-> [origin |-> cam.pos, ok |-> cam.ok]]

\* lines 154-164: one iteration of the camera loop
LoopPassRepairing ==
    /\ pc = "loop"
    /\ stream = "created"
    /\ it <= Len(trajectory)
    /\ host' = FillPose(trajectory[LoopCamera(it)])
    /\ Launch("update", LoopCamera(it), LoopStream(it),
              Grid(num_verts), KERNEL_BLOCK_SIZE, host')
    /\ it' = it + 1
    /\ trajectory' = [trajectory EXCEPT ![LoopCamera(it)].ok = TRUE]
    /\ UNCHANGED <<pc, inputs, args, mesh, cloud, num_verts, memory, stream,
                   output>>

LoopPass ==
    /\ pc = "loop"
    /\ stream = "created"
    /\ it <= Len(trajectory)
    /\ host' = FillPose(trajectory[LoopCamera(it)])
    /\ Launch("update", LoopCamera(it), LoopStream(it),
              Grid(num_verts), KERNEL_BLOCK_SIZE, host')
    /\ it' = it + 1
    /\ UNCHANGED <<pc, loaded, memory, stream, output>>

\* line 166, after the last iteration
StreamDestroy ==
    /\ pc = "loop"
    /\ it > Len(trajectory)
    /\ stream' = IF stream = "created" THEN "destroyed" ELSE stream
    /\ pc' = "sync_loop"
    /\ UNCHANGED <<loaded, memory, it, host, dev, last_error, issued, completed,
                   output>>

\* cudaDeviceSynchronize returns once the device has completed all work
DeviceIdle == dev = <<>>

\* line 167
SyncLoop ==
    /\ pc = "sync_loop"
    /\ DeviceIdle
    /\ pc' = "report_time"
    /\ UNCHANGED <<loaded, memory, loop, dev, last_error, issued, completed,
                   output>>

\* lines 169-171: one time for the whole loop
ReportTimePerPass ==
    /\ pc = "report_time"
    /\ report' = [report EXCEPT
                    !.times = @ \o [i \in 1..Len(trajectory) |-> "GPU"]]
    /\ pc' = "launch_process"
    /\ UNCHANGED <<loaded, memory, loop, dev, last_error, issued, completed,
                   values, files, err, exit_code>>

ReportTime ==
    /\ pc = "report_time"
    /\ report' = [report EXCEPT !.times = Append(@, "GPU")]
    /\ pc' = "launch_process"
    /\ UNCHANGED <<loaded, memory, loop, dev, last_error, issued, completed,
                   values,
                   files, err, exit_code>>

\* lines 173-178: block (32, 2), two rows a block
LaunchProcess ==
    /\ pc = "launch_process"
    /\ Launch("process", 0, DefaultStream, divup(num_verts, 2), 2, host)
    /\ pc' = "launch_evaluate"
    /\ UNCHANGED <<loaded, memory, loop, output>>

\* lines 181-183
LaunchEvaluate ==
    /\ pc = "launch_evaluate"
    /\ Launch("evaluate", 0, DefaultStream,
              Grid(num_verts), KERNEL_BLOCK_SIZE, host)
    /\ pc' = "launch_calculate"
    /\ UNCHANGED <<loaded, memory, loop, output>>

\* lines 184-185
LaunchCalculate ==
    /\ pc = "launch_calculate"
    /\ Launch("calculate", 0, DefaultStream,
              Grid(num_verts), KERNEL_BLOCK_SIZE, host)
    /\ pc' = "sync_scores"
    /\ UNCHANGED <<loaded, memory, loop, output>>

\* line 186
SyncScoresNoWait ==
    /\ pc = "sync_scores"
    /\ pc' = "copy_values"
    /\ UNCHANGED <<loaded, memory, loop, dev, last_error, issued, completed,
                   output>>

SyncScores ==
    /\ pc = "sync_scores"
    /\ DeviceIdle
    /\ pc' = "copy_values"
    /\ UNCHANGED <<loaded, memory, loop, dev, last_error, issued, completed,
                   output>>

\* lines 189-195: the weighted scores copied to the host
CopyValues ==
    /\ pc = "copy_values"
    /\ \E v \in Contents(dwrecons) :
        /\ dwrecons' = v
        /\ values' = [i \in 1..num_verts |-> v[i]]
    /\ pc' = "report_gpu"
    /\ UNCHANGED <<loaded, allocated, dobs_rays, drecons, loop, dev,
                   last_error, issued, completed, report, files, err, exit_code>>

\* lines 197-202
ReportGpu ==
    /\ pc = "report_gpu"
    /\ \E v \in Contents(dwrecons) :
        /\ dwrecons' = v
        /\ report' = [report EXCEPT !.gpu =
              <<[avg |-> [num |-> ReductionSum(v), den |-> num_verts],
                 sum |-> ReductionSum(v),
                 min |-> ReductionMin(v),
                 max |-> ReductionMax(v)]>>]
    /\ pc' = "report_cpu"
    /\ UNCHANGED <<loaded, allocated, dobs_rays, drecons, loop, dev,
                   last_error, issued, completed, values, files, err, exit_code>>

\* line 204: std::accumulate(values.begin(), values.end(), 1.0f)
Accumulate(v) == Unit + SumUpTo(v, Len(v))

\* lines 205-206: *std::min_element, *std::max_element; of an empty vector
\* the iterator is end() and the read is undefined: any value, or a crash
MinElement(v) ==
    IF Len(v) = 0 THEN {{x} : x \in {0, Unit}} \cup {{}}
    ELSE {{x \in {v[i] : i \in DOMAIN v} : \A i \in DOMAIN v : x <= v[i]}}
MaxElement(v) ==
    IF Len(v) = 0 THEN {{x} : x \in {0, Unit}} \cup {{}}
    ELSE {{x \in {v[i] : i \in DOMAIN v} : \A i \in DOMAIN v : x >= v[i]}}

\* lines 203-207
ReportCpu ==
    /\ pc = "report_cpu"
    /\ \E lo \in MinElement(values) : \E hi \in MaxElement(values) :
        IF Len(values) = 0 /\ (lo = {} \/ hi = {})
        THEN /\ exit_code' = "crash"
             /\ pc' = "exit"
             /\ UNCHANGED report
        ELSE /\ report' = [report EXCEPT !.cpu =
                  <<[avg |-> [num |-> Accumulate(values), den |-> num_verts],
                     sum |-> Accumulate(values),
                     min |-> lo,
                     max |-> hi]>>]
             /\ pc' = "report_length"
             /\ UNCHANGED exit_code
    /\ UNCHANGED <<loaded, memory, loop, dev, last_error, issued, completed,
                   values,
                   files, err>>

\* line 209
ReportLength ==
    /\ pc = "report_length"
    /\ report' = [report EXCEPT !.length = <<TrajectoryLength(trajectory)>>]
    /\ pc' = "export"
    /\ UNCHANGED <<loaded, memory, loop, dev, last_error, issued, completed,
                   values,
                   files, err, exit_code>>

\* lines 225-229: the raw scores copied over values
ReconValuesKept(recons) == [i \in 1..num_verts |-> values[i]]
ReconValues(recons) == [i \in 1..num_verts |-> recons[i]]

\* lines 237-241: the occupancy of every row copied over values
ObsValues(tab) == [i \in 1..num_verts |-> Len(tab.rows[i])]

\* lines 211-247, and the end of main
Export ==
    /\ pc = "export"
    /\ \E r \in Contents(drecons) :
        /\ drecons' = IF args.recon_cloud THEN r ELSE drecons
        /\ files' = [recon |-> IF args.recon_cloud
                               THEN <<ReconValues(r)>> ELSE files.recon,
                     obs |-> IF args.obs_cloud
                             THEN <<ObsValues(dobs_rays)>> ELSE files.obs]
        /\ values' = IF args.obs_cloud THEN ObsValues(dobs_rays)
                     ELSE IF args.recon_cloud THEN ReconValues(r)
                     ELSE values
    /\ pc' = "exit"
    /\ exit_code' = "success"
    /\ UNCHANGED <<loaded, allocated, dobs_rays, dwrecons, loop, dev,
                   last_error, issued, completed, report, err>>

Next ==
    \/ LoadTrajectory
    \/ LoadTrajectoryFails
    \/ TrajectoryMissing
    \/ LoadMesh
    \/ LoadCloud
    \/ Allocate
    \/ StreamCreate
    \/ LoopPass
    \/ StreamDestroy
    \/ SyncLoop
    \/ ReportTime
    \/ LaunchProcess
    \/ LaunchEvaluate
    \/ LaunchCalculate
    \/ SyncScores
    \/ CopyValues
    \/ ReportGpu
    \/ ReportCpu
    \/ ReportLength
    \/ Export
    \/ DevStart
    \/ DevWorker
    \/ DevFinish

Spec == Init /\ [][Next]_vars

----------------------------------------------------------------------------
(* What the claims speak about *)

\* the trajectory entries whose camera observes sample s
Observers(s) ==
    {i \in 1..Len(trajectory) :
        LET h == FillPose(trajectory[i]) IN
        Observes(h.view_pos, h.w2c, args.max_distance, mesh, s)}

\* the first max_cameras of them, in trajectory order
FirstObservers(s) ==
    {i \in Observers(s) :
        Cardinality({j \in Observers(s) : j < i}) < max_cameras}

\* the cameras whose observation a row of table tab retains
Retained(tab, s) == {tab.rows[s][i].cam : i \in 1..Len(tab.rows[s])}

Saturated == \E s \in 1..num_verts : Cardinality(Observers(s)) > max_cameras

\* main is past the device synchronization that ends the camera loop
AfterLoop ==
    \/ pc \in {"report_time", "launch_process", "launch_evaluate",
               "launch_calculate", "sync_scores", "copy_values", "report_gpu",
               "report_cpu", "report_length", "export"}
    \/ pc = "exit" /\ exit_code \in {"success", "crash"}

\* main is past the device synchronization that ends scoring and rescaling
AfterScores ==
    \/ pc \in {"copy_values", "report_gpu", "report_cpu", "report_length",
               "export"}
    \/ pc = "exit" /\ exit_code \in {"success", "crash"}

----------------------------------------------------------------------------
(* C1 *)

\* C1: in every reachable state the table has one row per sample and every
\* row holds between 0 and max_cameras (32) observations, whatever the length
\* of the trajectory
C1_OccupancyBounded ==
    allocated =>
        /\ DOMAIN dobs_rays.rows = 1..num_verts
        /\ \A s \in 1..num_verts :
              Len(dobs_rays.rows[s]) >= 0 /\ Len(dobs_rays.rows[s]) <= max_cameras

\* a sample observed by more than 32 cameras, its row full after the loop
C1_Witness ==
    /\ pc = "launch_process"
    /\ \E s \in 1..num_verts :
          /\ Cardinality(Observers(s)) > max_cameras
          /\ Len(dobs_rays.rows[s]) = max_cameras

----------------------------------------------------------------------------
(* C2 *)

\* C2: after the camera loop, the row of a sample that more than 32 cameras
\* observe retains exactly the first 32 observing cameras in trajectory
\* order: a function of the input alone, the same in every run
C2_FirstObserversWin ==
    AfterLoop =>
        \A s \in 1..num_verts :
            Cardinality(Observers(s)) > max_cameras =>
                /\ Retained(dobs_rays, s) = FirstObservers(s)
                /\ Len(dobs_rays.rows[s]) = max_cameras

\* a saturated sample with a late observing camera that was dropped
C2_Witness ==
    /\ AfterLoop
    /\ \E s \in 1..num_verts :
          /\ Cardinality(Observers(s)) > max_cameras
          /\ \E i \in Observers(s) :
                /\ i \notin Retained(dobs_rays, s)
                /\ \A j \in Retained(dobs_rays, s) : j < i

----------------------------------------------------------------------------
(* C3 *)

\* C3: once both reductions are reported, the sequential (CPU) sum, minimum,
\* maximum and average of the weighted scores equal the parallel (GPU) ones
C3_ReducersAgree ==
    (report.gpu # <<>> /\ report.cpu # <<>>) =>
        /\ report.cpu[1].sum = report.gpu[1].sum
        /\ report.cpu[1].min = report.gpu[1].min
        /\ report.cpu[1].max = report.gpu[1].max
        /\ report.cpu[1].avg = report.gpu[1].avg

----------------------------------------------------------------------------
(* C4 *)

\* C4: the phases never overlap: a kernel executes only when every kernel
\* launched before it has completed (pass k+1 after pass k, the Compactor
\* after the last pass although the stream is already destroyed, then Scorer,
\* then Rescaler, in launch order), and the host copies and reduces the
\* scores only when the device has completed everything
C4_PhaseBarrier ==
    /\ \A j \in 1..Len(dev) : dev[j].status = "running" => j = 1
    /\ \A i, j \in 1..Len(dev) :
          (i < j /\ dev[i].kernel # "update") => dev[j].kernel # "update"
    /\ AfterLoop =>
          \A j \in 1..Len(dev) : dev[j].kernel # "update"
    /\ AfterScores => dev = <<>>

\* the stream is destroyed while a camera pass executes and the next waits
C4_Witness ==
    /\ pc = "sync_loop"
    /\ stream = "destroyed"
    /\ Len(dev) = 2
    /\ dev[1].kernel = "update" /\ dev[1].status = "running"
    /\ dev[1].done # {}
    /\ dev[2].kernel = "update" /\ dev[2].status = "queued"

----------------------------------------------------------------------------
(* C5 *)

\* C5: within a camera pass worker i writes only row i (rows are numbered
\* from 1: row i + 1), the workers of the rounded-up grid past the last
\* sample write nothing, and no row is written by two workers
C5_RowOwnership ==
    \A j \in 1..Len(dev) :
        dev[j].kernel = "update" =>
            /\ \A w \in dev[j].wrote : w[1] < num_verts /\ w[2] = w[1] + 1
            /\ \A w1, w2 \in dev[j].wrote : w1[2] = w2[2] => w1[1] = w2[1]

\* a pass whose grid is larger than the cloud has run all its workers and wrote
C5_Witness ==
    \E j \in 1..Len(dev) :
        /\ dev[j].kernel = "update"
        /\ dev[j].workers > num_verts
        /\ dev[j].done = 0..(dev[j].workers - 1)
        /\ dev[j].wrote # {}

----------------------------------------------------------------------------
(* C6 *)

\* one whole camera pass on table tab: worker n - 1 down to worker 0
RECURSIVE PassOn(_, _, _)
PassOn(tab, k, n) ==
    IF n = 0 THEN tab
    ELSE PassOn(UpdateRow(tab, k, n - 1, mesh, num_verts), k, n - 1)

\* the camera loop from entry i on, the trajectory taken in the order given,
\* on table tab (each pass is evaluated before the next one is entered)
RECURSIVE LoopFrom(_, _, _)
LoopFrom(tab, order, i) ==
    IF i > Len(order) THEN tab
    ELSE LET grid == divup(num_verts, KERNEL_BLOCK_SIZE)
             k == Kernel("update", order[i], UserStream, grid * KERNEL_BLOCK_SIZE,
                         FillPose(trajectory[order[i]]))
         IN CHOOSE r \in {LoopFrom(next, order, i + 1) :
                            next \in {PassOn(tab, k, k.workers)}} : TRUE

\* the camera loop over the whole trajectory in the order given
LoopOver(order) == LoopFrom(AllocTable(num_verts), order, 1)

\* the orders the trajectory is replayed in: every permutation of a short
\* trajectory; of a long one the reversal, the rotation by one and the
\* exchange of its two ends
Orders(n) ==
    IF n <= MaxShortLen
    THEN {f \in [1..n -> 1..n] : \A i, j \in 1..n : f[i] = f[j] => i = j}
    ELSE {[i \in 1..n |-> n + 1 - i],
          [i \in 1..n |-> (i % n) + 1],
          [i \in 1..n |-> IF i = 1 THEN n ELSE IF i = n THEN 1 ELSE i]}

\* C6: when no sample is observed by more than 32 cameras, the observations
\* each row retains after the camera loop are the same for the trajectory's
\* cameras taken in any other order
C6_OrderIndependent ==
    (pc = "report_time" /\ ~Saturated) =>
        \A order \in Orders(Len(trajectory)) :
            \A s \in 1..num_verts :
                Retained(LoopOver(order), s)
                    = Retained(dobs_rays, s)

\* a row holding the observations of two cameras that stand in different places
C6_Witness ==
    /\ pc = "report_time"
    /\ ~Saturated
    /\ \E s \in 1..num_verts : \E i, j \in Retained(dobs_rays, s) :
          trajectory[i].pos # trajectory[j].pos

----------------------------------------------------------------------------
(* C7 *)

\* C7: after Scorer and Rescaler, a sample with no observation or with one
\* has the raw score 0 the array was zeroed to, and the weighted score that
\* the Rescaler gives to 0
C7_UnobservedScoreMinimum ==
    AfterScores =>
        \A s \in 1..num_verts :
            Len(dobs_rays.rows[s]) <= 1 =>
                /\ drecons[s] = 0
                /\ dwrecons[s] = Rescale(0, args.target_recon)

\* a single camera: one sample it observes, one it does not
C7_Witness ==
    /\ pc = "copy_values"
    /\ Len(trajectory) = 1
    /\ \E s, u \in 1..num_verts :
          Len(dobs_rays.rows[s]) = 1 /\ Len(dobs_rays.rows[u]) = 0

----------------------------------------------------------------------------
(* C8 *)

MaxRaw == 5            \* raw scores the Rescaler is tried on
MaxTarget == 4         \* target qualities it is tried with

\* the Rescaler phase alone, on any raw scores and any target quality
InitRescale ==
    /\ pc = "launch_calculate"
    /\ inputs = [trajectory |-> "present", mesh |-> TRUE, cloud |-> TRUE]
    /\ args \in [max_distance : {max_distance_default}, target_recon : 1..MaxTarget,
                 recon_cloud : {FALSE}, obs_cloud : {FALSE}]
    /\ trajectory = <<>>
    /\ mesh = "open"
    /\ cloud = CloudPoints(2)
    /\ num_verts = 2
    /\ allocated = TRUE
    /\ dobs_rays = AllocTable(2)
    /\ drecons \in [1..2 -> 0..MaxRaw]
    /\ dwrecons = AllocWrecons(2)
    /\ stream = "destroyed"
    /\ it = 1
    /\ host = [view_pos |-> 0, w2c |-> [origin |-> 0, ok |-> FALSE]]
    /\ dev = <<>>
    /\ last_error = "success"
    /\ issued = <<>>
    /\ completed = <<>>
    /\ values = <<>>
    /\ report = [times |-> <<"GPU">>, gpu |-> <<>>, cpu |-> <<>>, length |-> <<>>]
    /\ files = [recon |-> <<>>, obs |-> <<>>]
    /\ err = <<>>
    /\ exit_code = "running"

NextRescale ==
    \/ LaunchCalculate
    \/ DevStart
    \/ DevWorker
    \/ DevFinish
    \/ SyncScores

SpecRescale == InitRescale /\ [][NextRescale]_vars

\* C8: for one target quality the weighted score does not decrease when the
\* raw score increases and is the upper bound 1.0 once the raw score reaches
\* the target; for one raw score it does not increase with the target
C8_RescaleMonotone ==
    pc = "copy_values" =>
        /\ \A s, u \in 1..num_verts :
              drecons[s] <= drecons[u] => dwrecons[s] <= dwrecons[u]
        /\ \A s \in 1..num_verts :
              /\ dwrecons[s] <= Unit
              /\ drecons[s] >= args.target_recon => dwrecons[s] = Unit
              /\ \A t \in args.target_recon..MaxTarget :
                    Rescale(drecons[s], t) <= dwrecons[s]

\* one raw score below the target and one above it
C8_Witness ==
    /\ pc = "copy_values"
    /\ drecons[1] < args.target_recon /\ drecons[2] > args.target_recon
    /\ 0 < dwrecons[1] /\ dwrecons[1] < dwrecons[2] /\ dwrecons[2] = Unit
    /\ Rescale(drecons[1], args.target_recon + 1) < dwrecons[1]

----------------------------------------------------------------------------
(* C9 *)

\* C9: no pass is issued for a camera with degenerate parameters: it is
\* found out before the launch and skipped
C9_DegenerateNotIssued ==
    \A i \in 1..Len(issued) :
        issued[i][1] = "update" => trajectory[issued[i][2]].ok

----------------------------------------------------------------------------
(* C10 *)

InputError ==
    inputs.trajectory # "present" \/ ~inputs.mesh \/ ~inputs.cloud

\* C10: with the trajectory, the mesh or the cloud missing or unreadable,
\* no per-sample array is ever allocated, nothing is launched or reduced,
\* and the process ends reporting the error with a failure exit
C10_InputErrorFatal ==
    InputError =>
        /\ ~allocated
        /\ stream = "none"
        /\ issued = <<>> /\ dev = <<>>
        /\ report = [times |-> <<>>, gpu |-> <<>>, cpu |-> <<>>, length |-> <<>>]
        /\ pc \in {"load_trajectory", "load_mesh", "load_cloud", "exit"}
        /\ pc = "exit" => (exit_code = "failure" /\ err # <<>>)
        /\ pc # "exit" => (exit_code = "running" /\ ENABLED Next)

\* the trajectory and the mesh were loaded and the cloud could not be
C10_Witness ==
    /\ pc = "exit"
    /\ ~inputs.cloud
    /\ Len(trajectory) > 0
    /\ mesh # "none"
    /\ exit_code = "failure"

----------------------------------------------------------------------------
(* C11: failures of the accelerator *)

\* trajectories the failures are tried on
FaultTrajectories == {t \in ShortTrajectories : Len(t) < MaxShortLen}

\* the inputs are loaded and the proxy cloud is not empty
InitFault ==
    /\ pc = "allocate"
    /\ inputs = [trajectory |-> "present", mesh |-> TRUE, cloud |-> TRUE]
    /\ args \in ParsedArgs
    /\ trajectory \in FaultTrajectories
    /\ mesh = "open"
    /\ cloud \in {CloudPoints(n) : n \in 1..MaxSamples}
    /\ num_verts = 0
    /\ allocated = FALSE
    /\ dobs_rays = TableCreate(0, 0)
    /\ drecons = <<>>
    /\ dwrecons = <<>>
    /\ stream = "none"
    /\ it = 1
    /\ host = [view_pos |-> 0, w2c |-> [origin |-> 0, ok |-> FALSE]]
    /\ dev = <<>>
    /\ last_error = "success"
    /\ issued = <<>>
    /\ completed = <<>>
    /\ values = <<>>
    /\ report = [times |-> <<>>, gpu |-> <<>>, cpu |-> <<>>, length |-> <<>>]
    /\ files = [recon |-> <<>>, obs |-> <<>>]
    /\ err = <<>>
    /\ exit_code = "running"

\* lines 128-134: create() of a cacc container fails; cacc checks the
\* allocation and ends the process
AllocateFails ==
    /\ pc = "allocate"
    /\ last_error' = "memory_allocation"
    /\ err' = Append(err, "cuda error")
    /\ exit_code' = "failure"
    /\ pc' = "exit"
    /\ UNCHANGED <<loaded, memory, loop, dev, issued, completed, values,
                   report, files>>

\* line 150: cudaStreamCreate fails; its result is not looked at and the
\* handle stays what it was
StreamCreateFails ==
    /\ pc = "stream_create"
    /\ stream' = "invalid"
    /\ last_error' = "stream_creation"
    /\ pc' = "loop"
    /\ UNCHANGED <<loaded, memory, it, host, dev, issued, completed, output>>

\* a launch the runtime rejects: nothing is enqueued, the error is recorded
LaunchRejected(name, cam, error) ==
    /\ issued' = Append(issued, <<name, cam>>)
    /\ last_error' = error
    /\ UNCHANGED <<dev, completed>>

\* lines 154-164 with the handle of a stream that was never created: the
\* launch is rejected, or the runtime follows the handle and the process dies
LoopPassInvalidStream ==
    /\ pc = "loop"
    /\ stream = "invalid"
    /\ it <= Len(trajectory)
    /\ host' = FillPose(trajectory[LoopCamera(it)])
    /\ LaunchRejected("update", LoopCamera(it), "invalid_resource_handle")
    /\ it' = it + 1
    /\ \E died \in BOOLEAN :
        /\ pc' = IF died THEN "exit" ELSE pc
        /\ exit_code' = IF died THEN "crash" ELSE exit_code
    /\ UNCHANGED <<loaded, memory, stream, values, report, files, err>>

\* lines 159-163: the launch of a pass fails
LoopPassFails ==
    /\ pc = "loop"
    /\ stream = "created"
    /\ it <= Len(trajectory)
    /\ host' = FillPose(trajectory[LoopCamera(it)])
    /\ LaunchRejected("update", LoopCamera(it), "launch_failure")
    /\ it' = it + 1
    /\ UNCHANGED <<pc, loaded, memory, stream, output>>

\* lines 176-177: the launch of the Compactor fails
LaunchProcessFails ==
    /\ pc = "launch_process"
    /\ LaunchRejected("process", 0, "launch_failure")
    /\ pc' = "launch_evaluate"
    /\ UNCHANGED <<loaded, memory, loop, output>>

\* line 183: the launch of the Scorer fails
LaunchEvaluateFails ==
    /\ pc = "launch_evaluate"
    /\ LaunchRejected("evaluate", 0, "launch_failure")
    /\ pc' = "launch_calculate"
    /\ UNCHANGED <<loaded, memory, loop, output>>

\* lines 184-185: the launch of the Rescaler fails
LaunchCalculateFails ==
    /\ pc = "launch_calculate"
    /\ LaunchRejected("calculate", 0, "launch_failure")
    /\ pc' = "sync_scores"
    /\ UNCHANGED <<loaded, memory, loop, output>>

NextFault ==
    \/ Allocate
    \/ AllocateFails
    \/ StreamCreate
    \/ StreamCreateFails
    \/ LoopPass
    \/ LoopPassFails
    \/ LoopPassInvalidStream
    \/ StreamDestroy
    \/ SyncLoop
    \/ ReportTime
    \/ LaunchProcess
    \/ LaunchProcessFails
    \/ LaunchEvaluate
    \/ LaunchEvaluateFails
    \/ LaunchCalculate
    \/ LaunchCalculateFails
    \/ SyncScores
    \/ CopyValues
    \/ ReportGpu
    \/ ReportCpu
    \/ ReportLength
    \/ Export
    \/ DevStart
    \/ DevWorker
    \/ DevFinish

SpecFault == InitFault /\ [][NextFault]_vars

\* the runtime has recorded a failure
AcceleratorFailed == last_error # "success"

\* C11: a failure of the accelerator in any phase (an allocation, the
\* creation of the stream, the launch of a pass, of the Compactor, of the
\* Scorer or of the Rescaler) ends the run with the failure surfaced: no
\* reduction is reported, nothing is exported and the run does not end in
\* success
C11_FailureIsFatal ==
    AcceleratorFailed =>
        /\ report.gpu = <<>> /\ report.cpu = <<>>
        /\ files = [recon |-> <<>>, obs |-> <<>>]
        /\ exit_code # "success"

----------------------------------------------------------------------------
(* C12 *)

\* the host holds the snapshot and has not yet overwritten it
SnapshotHeld == pc \in {"report_gpu", "report_cpu", "report_length", "export"}

\* C12: the host-side reduction reads a snapshot of the weighted scores taken
\* after all work of the Rescaler has completed, and nothing on the device
\* writes the weighted scores after the copy: while the snapshot is held the
\* device is idle, the snapshot equals the device array, and the device-side
\* reduction has reduced those same contents
C12_SnapshotAfterRescaler ==
    SnapshotHeld =>
        /\ dev = <<>>
        /\ num_verts > 0 =>
              /\ Len(completed) > 0
              /\ completed[Len(completed)] = <<"calculate", 0>>
        /\ values = [i \in 1..num_verts |-> dwrecons[i]]
        /\ \A i \in 1..num_verts : values[i] # Uninit
        /\ report.gpu # <<>> =>
              /\ report.gpu[1].sum = ReductionSum(values)
              /\ report.gpu[1].min = ReductionMin(values)
              /\ report.gpu[1].max = ReductionMax(values)

\* both reductions have run on a snapshot with a score between 0.0 and 1.0
C12_Witness ==
    /\ pc = "report_length"
    /\ num_verts = MaxSamples
    /\ 0 < values[1] /\ values[1] < Unit
    /\ report.gpu # <<>> /\ report.cpu # <<>>

----------------------------------------------------------------------------
(* C13 *)

\* the kernels of a run, in order: a pass for every trajectory entry, then
\* the Compactor, the Scorer and the Rescaler
ExpectedStages ==
    [i \in 1..Len(trajectory) |-> <<"update", i>>]
        \o << <<"process", 0>>, <<"evaluate", 0>>, <<"calculate", 0>> >>

IsPrefix(a, b) == Len(a) <= Len(b) /\ \A i \in 1..Len(a) : a[i] = b[i]

\* C13: with inputs that load, the stages run in order and each to
\* completion: one pass per trajectory entry in trajectory order, then one
\* Compactor, one Scorer, one Rescaler, then the two reductions, then the
\* export; and the run that has ended has ended in success with all of them
\* done
C13_StagesInOrder ==
    /\ IsPrefix(completed, ExpectedStages)
    /\ report.gpu # <<>> => completed = ExpectedStages
    /\ report.cpu # <<>> => report.gpu # <<>>
    /\ (pc = "exit" /\ ~InputError) =>
          /\ exit_code = "success"
          /\ completed = ExpectedStages
          /\ report.gpu # <<>> /\ report.cpu # <<>>

----------------------------------------------------------------------------
(* C14 *)

\* the camera loop and the passes it launched are under way
InLoop == pc \in {"loop", "sync_loop"}

\* C14: the passes of the camera loop change only the ObservationTable: no
\* step taken while the loop and its passes are under way changes a camera
\* pose, a sample point, the proxy mesh, a raw score or a weighted score
C14_LoopFrame ==
    [][InLoop =>
          /\ trajectory' = trajectory
          /\ cloud' = cloud
          /\ mesh' = mesh
          /\ drecons' = drecons
          /\ dwrecons' = dwrecons]_vars

\* the loop has filled a row of the table, and the scores are as allocated
C14_Witness ==
    /\ pc = "report_time"
    /\ num_verts = MaxSamples
    /\ \E s \in 1..num_verts : Len(dobs_rays.rows[s]) > 1
    /\ \E i \in 1..Len(trajectory) : ~trajectory[i].ok
    /\ drecons = AllocRecons(num_verts)
    /\ dwrecons = AllocWrecons(num_verts)

----------------------------------------------------------------------------
(* C15 *)

\* what the report of an ended run holds besides the time
Summary ==
    /\ Len(report.gpu) = 1
    /\ Len(report.cpu) = 1
    /\ report.length = <<TrajectoryLength(trajectory)>>

----------------------------------------------------------------------------
(* C16 *)

\* C16: with an empty sample set the run completes and reads no element
\* outside an array: no launch fails on an empty grid, the sequential scan
\* reads no element of the empty score array (it has no minimum and no
\* maximum to report), and the run does not die
C16_EmptySampleSet ==
    (allocated /\ num_verts = 0) =>
        /\ last_error = "success"
        /\ exit_code # "crash"
        /\ report.cpu # <<>> =>
              /\ report.cpu[1].min = {}
              /\ report.cpu[1].max = {}

----------------------------------------------------------------------------
(* C17 *)

\* the ray a step has appended to row s, if it appended one
Appended(s) ==
    IF Len(dobs_rays'.rows[s]) = Len(dobs_rays.rows[s]) + 1
    THEN {dobs_rays'.rows[s][Len(dobs_rays'.rows[s])]}
    ELSE {}

\* C17: every pass runs with the pose of its own trajectory entry, although
\* the host fills the same pose variables again for the next entry while
\* earlier passes are queued or running: a pass is launched with the pose of
\* its entry, and every ray a pass writes into the table is the ray from its
\* sample to the camera of the entry the pass was launched for, which
\* observes the sample
C17_OwnPose ==
    [][/\ \A j \in 1..Len(dev') :
             dev'[j].kernel = "update" =>
                 /\ dev'[j].view_pos = FillPose(trajectory[dev'[j].cam]).view_pos
                 /\ dev'[j].w2c = FillPose(trajectory[dev'[j].cam]).w2c
       /\ \A s \in 1..dobs_rays.num_cols : \A r \in Appended(s) :
             /\ r.cam \in 1..Len(trajectory)
             /\ r.dir = trajectory[r.cam].pos - SamplePos(s)
             /\ Observes(FillPose(trajectory[r.cam]).view_pos,
                         FillPose(trajectory[r.cam]).w2c,
                         args.max_distance, mesh, s)]_vars

\* a pass is writing its rays while the host holds the pose of a later entry
C17_Witness ==
    \E j \in 1..Len(dev) :
        /\ dev[j].kernel = "update"
        /\ dev[j].status = "running"
        /\ host.view_pos # dev[j].view_pos
        /\ \E s \in 1..num_verts : \E i \in 1..Len(dobs_rays.rows[s]) :
              dobs_rays.rows[s][i].cam = dev[j].cam

----------------------------------------------------------------------------
(* C18 *)

\* the host is about to read the weighted scores: the snapshot copy, then
\* the device-side reduction
ReadsWeighted == pc \in {"copy_values", "report_gpu"}

\* C18: the weighted-score array is allocated without being initialised, and
\* the Rescaler has written every index of it before the host copies it or
\* reduces it: no read finds an index never written
C18_WrittenBeforeRead ==
    ReadsWeighted =>
        \A s \in 1..num_verts :
            /\ dwrecons[s] # Uninit
            /\ dwrecons[s] = Rescale(drecons[s], args.target_recon)

\* the copy is about to read the scores the Rescaler wrote over the
\* uninitialised array
C18_Witness ==
    /\ pc = "copy_values"
    /\ num_verts = MaxSamples
    /\ AllocWrecons(num_verts)[1] = Uninit
    /\ \A s \in 1..num_verts : dwrecons[s] \in 1..Unit

----------------------------------------------------------------------------
(* C19 *)

\* the occupancy of every row of the table
Occupancy == [s \in 1..num_verts |-> Len(dobs_rays.rows[s])]

\* C19: for every combination of the two export options, the
\* reconstructability export carries the raw score of every sample and the
\* observations export the occupancy of its row; the sequential reduction
\* has reduced the weighted scores; and an export that is not asked for is
\* not written
C19_ExportsCarryOwnQuantity ==
    /\ ~args.recon_cloud => files.recon = <<>>
    /\ ~args.obs_cloud => files.obs = <<>>
    /\ (pc = "exit" /\ exit_code = "success") =>
          /\ args.recon_cloud =>
                files.recon = <<[s \in 1..num_verts |-> drecons[s]]>>
          /\ args.obs_cloud => files.obs = <<Occupancy>>
          /\ report.cpu[1].sum = Accumulate(dwrecons)
          /\ num_verts > 0 => report.cpu[1].min = ReductionMin(dwrecons)
          /\ num_verts > 0 => report.cpu[1].max = ReductionMax(dwrecons)

\* both exports are written, of a sample whose raw score, weighted score and
\* row occupancy are three different numbers
C19_Witness ==
    /\ pc = "exit" /\ exit_code = "success"
    /\ args.recon_cloud /\ args.obs_cloud
    /\ \E s \in 1..num_verts :
          /\ drecons[s] > 0
          /\ drecons[s] # dwrecons[s]
          /\ drecons[s] # Occupancy[s]
          /\ dwrecons[s] # Occupancy[s]
          /\ files.recon[1][s] = drecons[s]
          /\ files.obs[1][s] = Occupancy[s]

============================================================================
